---- MODULE Spec2Model ----
(***************************************************************************)
(* Chronos Lens: the App component's state (src/App.tsx), its handlers and *)
(* the Gemini service functions (src/unnamed/part_000, imported by App.tsx *)
(* as ./services/geminiService).                                           *)
(*                                                                         *)
(* Text is modelled as a sequence of tokens; a token is a chunk of         *)
(* characters (a TLA+ string).  The tokens "," and " " are the comma and a *)
(* blank; no other token holds a comma or is blank.  The empty string is   *)
(* the empty sequence.  null / undefined is None, a present value Some(v). *)
(***************************************************************************)
EXTENDS Integers, Sequences, FiniteSets, TLC

VARIABLES
    coords,        \* useState<Coordinates>           App.tsx:62
    locationName,  \* useState<string>                App.tsx:63
    date,          \* useState<string>                App.tsx:64
    time,          \* useState<string>                App.tsx:65
    style,         \* useState<PhotoStyle>            App.tsx:66
    isLoading,     \* useState<boolean>               App.tsx:67
    loadingStep,   \* useState<string>                App.tsx:68
    result,        \* useState<GeneratedImage | null> App.tsx:69
    error,         \* useState<string | null>         App.tsx:70
    aistudio,      \* whether window.aistudio exists  part_000:6
    runs,          \* the handleGenerate invocations in flight, by slot
    searches,      \* the number of handleSearch invocations awaiting their fetch
    revs,          \* the handleReverseGeocode invocations awaiting their fetch:
                   \* the coordinates each was called with
    returned,      \* the handleGenerate invocation that returned in the step
                   \* just taken (NoRun when none did)
    event          \* the preset selection, map click or lookup answer that
                   \* the step just taken handled (NoEvent when none)

vars == <<coords, locationName, date, time, style, isLoading, loadingStep,
          result, error, aistudio, runs, searches, revs, returned, event>>

formVars == <<coords, locationName, date, time, style>>

----------------------------------------------------------------------------
(* Bounds of the model. *)

\* handleGenerate invocations in flight at one time
MaxRuns == 1
\* handleSearch invocations awaiting their response at one time
MaxSearches == 1
\* handleReverseGeocode invocations awaiting their response at one time
MaxRevs == 2
\* members of a JSON object text in the scene-synthesis response
MaxMembers == 2
\* parts of the first candidate of the image-synthesis response
MaxParts == 2

----------------------------------------------------------------------------
(* null and present values *)

None == [some |-> FALSE]
Some(v) == [some |-> TRUE, val |-> v]

(* The string utilities the code uses. *)

\* String.prototype.includes
Includes(hay, needle) ==
    \E i \in 0..(Len(hay) - Len(needle)) :
        SubSeq(hay, i + 1, i + Len(needle)) = needle

\* the index of the first "," of s, or Len(s) + 1
RECURSIVE FirstComma(_, _)
FirstComma(s, i) ==
    IF i > Len(s) THEN i
    ELSE IF s[i] = "," THEN i
    ELSE FirstComma(s, i + 1)

\* s.split(',')[0]
SplitCommaFirst(s) == SubSeq(s, 1, FirstComma(s, 1) - 1)

\* s.trim() is the empty string
TrimIsEmpty(s) == \A i \in 1..Len(s) : s[i] = " "

----------------------------------------------------------------------------
(* Numbers.  A number of the program is an IEEE 754 double:                 *)
(*   [kind |-> "finite", neg, m, e]  is  (-1)^neg * m * 2^e,               *)
(*   [kind |-> "infinite", neg, ...] is  +Infinity or -Infinity,           *)
(*   [kind |-> "NaN", ...]           is  NaN.                              *)
(* m is a natural number below 2^53.  A natural number is written in base  *)
(* 10^4, as the sequence of its limbs, most significant first and without  *)
(* leading zeros: <<9007, 1992, 5474, 992>> is 9007199254740992, and zero  *)
(* is the empty sequence.  A finite number has one form: m is at least     *)
(* 2^52 and e is in -1074..971, or e is -1074 (a subnormal), or m is zero  *)
(* and e is 0 (+0 or -0).                                                  *)

NaN == [kind |-> "NaN", neg |-> FALSE, m |-> <<>>, e |-> 0]

Infinity(neg) == [kind |-> "infinite", neg |-> neg, m |-> <<>>, e |-> 0]

Zero(neg) == [kind |-> "finite", neg |-> neg, m |-> <<>>, e |-> 0]

Pow2_37 == <<1374, 3895, 3472>>
Pow2_49 == <<562, 9499, 5342, 1312>>
Pow2_52 == <<4503, 5996, 2737, 496>>
Pow2_53 == <<9007, 1992, 5474, 992>>
Pow2_54 == <<1, 8014, 3985, 948, 1984>>

(* Arithmetic on natural numbers. *)

\* d without its leading zeros
StripZeros(d) ==
    IF \A i \in 1..Len(d) : d[i] = 0 THEN <<>>
    ELSE LET f == CHOOSE i \in 1..Len(d) : d[i] # 0 /\ \A j \in 1..(i - 1) : d[j] = 0
         IN SubSeq(d, f, Len(d))

\* d without its first limb when that is zero
StripZero(d) == SubSeq(d, IF Len(d) > 0 /\ d[1] = 0 THEN 2 ELSE 1, Len(d))

\* the natural number whose decimal digits are d
Limbs(d) ==
    LET pad == (4 - (Len(d) % 4)) % 4
        at(i) == IF i <= pad THEN 0 ELSE d[i - pad]
    IN StripZeros([j \in 1..((Len(d) + pad) \div 4) |->
                      at(4 * j - 3) * 1000 + at(4 * j - 2) * 100
                      + at(4 * j - 1) * 10 + at(4 * j)])

\* the limbs of n[1..j] * c + carry, for c and carry up to 2^16
RECURSIVE TimesFrom(_, _, _, _)
TimesFrom(n, c, j, carry) ==
    IF j = 0 THEN <<carry>>
    ELSE Append(TimesFrom(n, c, j - 1, (n[j] * c + carry) \div 10000),
                (n[j] * c + carry) % 10000)

\* n * c, for c up to 2^16
Times(n, c) == StripZeros(TimesFrom(<<0>> \o n, c, Len(n) + 1, 0))

\* n div 2
Half(n) ==
    StripZero([j \in 1..Len(n) |->
                  (n[j] + (IF j > 1 /\ n[j - 1] % 2 = 1 THEN 10000 ELSE 0)) \div 2])

\* n + 1
Succ(n) ==
    IF \A i \in 1..Len(n) : n[i] = 9999 THEN <<1>> \o [i \in 1..Len(n) |-> 0]
    ELSE LET p == CHOOSE i \in 1..Len(n) :
                     n[i] # 9999 /\ \A j \in (i + 1)..Len(n) : n[j] = 9999
         IN [i \in 1..Len(n) |-> IF i < p THEN n[i] ELSE IF i = p THEN n[i] + 1 ELSE 0]

IsOdd(n) == Len(n) > 0 /\ n[Len(n)] % 2 = 1

\* a < b for a and b of one length that agree before position i
RECURSIVE LessFrom(_, _, _)
LessFrom(a, b, i) ==
    IF i > Len(a) THEN FALSE
    ELSE IF a[i] # b[i] THEN a[i] < b[i]
    ELSE LessFrom(a, b, i + 1)

\* a < b; b is a power of two of this section
Less(a, b) == Len(a) < Len(b) \/ (Len(a) = Len(b) /\ LessFrom(a, b, 1))

\* the decimal digits of the natural number n, an integer
RECURSIVE NatDigits(_)
NatDigits(n) == IF n = 0 THEN <<>> ELSE Append(NatDigits(n \div 10), n % 10)

\* floor(n / 10^(4 * k))
IntPart(n, k) == IF Len(n) > k THEN SubSeq(n, 1, Len(n) - k) ELSE <<>>

\* n is no multiple of 10^(4 * k)
HasFrac(n, k) == \E i \in 1..Len(n) : i > Len(n) - k /\ n[i] # 0

(* Scaling by powers of two.  A scaling st is the number st.n, the power   *)
(* of two it has been divided by so far (st.by, negative when multiplied)  *)
(* and whether a halving has dropped a 1 (st.lost).                        *)

Scaling(n) == [n |-> n, by |-> 0, lost |-> FALSE]

\* floor(st.n / 10^(4 * k)) is below 2^53 and st has been doubled fewer
\* than 1075 times
TooSmall(st, k) == st.by > 0 - 1075 /\ Less(IntPart(st.n, k), Pow2_53)

\* the doublings of st that are due at once: 16 or 4 when st is too small
\* even after that many, else one
Due(st, k) ==
    IF st.by > 16 - 1075 /\ Less(IntPart(st.n, k), Pow2_37) THEN 16
    ELSE IF st.by > 4 - 1075 /\ Less(IntPart(st.n, k), Pow2_49) THEN 4
    ELSE 1

\* st doubled s times, s being 16, 4 or 1
Doubled(st, s) ==
    [st EXCEPT !.n = Times(@, IF s = 16 THEN 65536 ELSE IF s = 4 THEN 16 ELSE 2),
               !.by = @ - s]

\* st doubled while it is too small, in c steps at most
RECURSIVE Up(_, _, _)
Up(st, k, c) ==
    IF c = 0 \/ ~TooSmall(st, k) THEN st
    ELSE Up(Doubled(st, Due(st, k)), k, c - 1)

\* st doubled until floor(st.n / 10^(4 * k)) is at least 2^53, 1075 times
\* at most; 32 steps at a time
RECURSIVE ScaleUp(_, _)
ScaleUp(st, k) == IF TooSmall(st, k) THEN ScaleUp(Up(st, k, 32), k) ELSE st

\* floor(st.n / 10^(4 * k)) is at least 2^54
TooLarge(st, k) == ~Less(IntPart(st.n, k), Pow2_54)

\* st halved while it is too large, c times at most
RECURSIVE Down(_, _, _)
Down(st, k, c) ==
    IF c = 0 \/ ~TooLarge(st, k) THEN st
    ELSE Down([n |-> Half(st.n), by |-> st.by + 1, lost |-> st.lost \/ IsOdd(st.n)],
              k, c - 1)

\* st halved until floor(st.n / 10^(4 * k)) is below 2^54; 32 halvings at
\* a time
RECURSIVE ScaleDown(_, _)
ScaleDown(st, k) == IF TooLarge(st, k) THEN ScaleDown(Down(st, k, 32), k) ELSE st

\* n / 10^(4 * k) scaled by a power of two to 54 bits, fewer at the bottom
\* of the range
Scaled(n, k) ==
    IF Less(IntPart(n, k), Pow2_54)
    THEN ScaleUp(Scaling(n), k) ELSE ScaleDown(Scaling(n), k)

\* q div 2 rounded by the last bit of q and by what was dropped before
\* (sticky): up when more than a half was dropped, and when just a half
\* was dropped and q div 2 is odd
RoundedHalf(q, sticky) ==
    IF IsOdd(q) /\ (sticky \/ IsOdd(Half(q))) THEN Succ(Half(q)) ELSE Half(q)

\* the double m * 2^e for m up to 2^53
Packed(neg, m, e) ==
    IF m = <<>> THEN Zero(neg)
    ELSE IF e + (IF m = Pow2_53 THEN 1 ELSE 0) > 971 THEN Infinity(neg)
    ELSE IF m = Pow2_53 THEN [kind |-> "finite", neg |-> neg, m |-> Pow2_52, e |-> e + 1]
    ELSE [kind |-> "finite", neg |-> neg, m |-> m, e |-> e]

\* the double nearest to sc.n * 2^sc.by / 10^(4 * k), for a scaling sc to
\* 54 bits
Rounded(neg, sc, k) ==
    Packed(neg, RoundedHalf(IntPart(sc.n, k), sc.lost \/ HasFrac(sc.n, k)), sc.by + 1)

\* the least k for which a multiple of 10^e10 is a multiple of 1 / 10^(4 * k)
FracLimbs(e10) == IF e10 >= 0 THEN 0 ELSE (3 - e10) \div 4

\* The double nearest to d * 10^e10, ties to the even mantissa, for a
\* sequence d of decimal digits without leading zeros.  The value is
\* written as n / 10^(4 * k), scaled and rounded.
DoubleOf(neg, d, e10) ==
    IF d = <<>> THEN Zero(neg)
    ELSE IF Len(d) + e10 > 310 THEN Infinity(neg)
    ELSE IF Len(d) + e10 < 0 - 330 THEN Zero(neg)
    ELSE Rounded(neg,
                 Scaled(Limbs(d \o [i \in 1..(e10 + 4 * FracLimbs(e10)) |-> 0]),
                        FracLimbs(e10)),
                 FracLimbs(e10))

\* the decimal number literal n / 10^k of the source, n an integer
Dec(n, k) == DoubleOf(n < 0, NatDigits(IF n < 0 THEN 0 - n ELSE n), 0 - k)

(* parseFloat (App.tsx:81) on a text whose tokens are single characters.   *)
(* A character that has no escape in a TLA+ string is the token that       *)
(* spells its \uXXXX escape.  Leading white space is skipped; then the     *)
(* longest prefix that is a StrDecimalLiteral is the number: an optional   *)
(* sign and Infinity, or digits with an optional "." and an optional       *)
(* exponent; NaN when there is none.  An exponent of more than 10^8 is     *)
(* taken as 10^8, which no text of fewer than 10^8 characters tells apart. *)

\* WhiteSpace and LineTerminator
WhiteSpace ==
    {" ", "\t", "\n", "\r", "\f", "\\u000B", "\\u00A0", "\\uFEFF", "\\u1680",
     "\\u2000", "\\u2001", "\\u2002", "\\u2003", "\\u2004", "\\u2005", "\\u2006",
     "\\u2007", "\\u2008", "\\u2009", "\\u200A", "\\u2028", "\\u2029", "\\u202F",
     "\\u205F", "\\u3000"}

Digits == <<"0", "1", "2", "3", "4", "5", "6", "7", "8", "9">>

DigitVal(c) == (CHOOSE d \in 1..10 : Digits[d] = c) - 1

\* the position of the first token of s from i on that is not in set, or
\* the position after s
EndOf(s, i, set) ==
    IF i > Len(s) THEN i
    ELSE CHOOSE j \in i..(Len(s) + 1) :
            /\ \A h \in i..(j - 1) : s[h] \in set
            /\ j <= Len(s) => s[j] \notin set

\* the position after the digits of s that start at i
DigitsEnd(s, i) == EndOf(s, i, {Digits[d] : d \in 1..10})

\* the value of the digit sequence d, which is shorter than 9
RECURSIVE NatValue(_)
NatValue(d) == IF d = <<>> THEN 0 ELSE 10 * NatValue(SubSeq(d, 1, Len(d) - 1)) + d[Len(d)]

\* the value of the digits s[i..j-1], 10^8 at most
DigitsVal(s, i, j) ==
    LET d == StripZeros([h \in 1..(j - i) |-> DigitVal(s[i + h - 1])])
    IN IF Len(d) > 8 THEN 100000000 ELSE NatValue(d)

ParseFloat(s) ==
    LET first == EndOf(s, 1, WhiteSpace)
        signed == first <= Len(s) /\ s[first] \in {"-", "+"}
        neg == signed /\ s[first] = "-"
        start == IF signed THEN first + 1 ELSE first
        intEnd == DigitsEnd(s, start)
        nInt == intEnd - start
        hasDot == intEnd <= Len(s) /\ s[intEnd] = "."
        fracEnd == IF hasDot THEN DigitsEnd(s, intEnd + 1) ELSE intEnd
        nFrac == IF hasDot THEN fracEnd - (intEnd + 1) ELSE 0
        hasE == fracEnd <= Len(s) /\ s[fracEnd] \in {"e", "E"}
        expSigned == hasE /\ fracEnd + 1 <= Len(s) /\ s[fracEnd + 1] \in {"-", "+"}
        expStart == IF expSigned THEN fracEnd + 2 ELSE fracEnd + 1
        expEnd == IF hasE THEN DigitsEnd(s, expStart) ELSE expStart
        expMag == IF hasE THEN DigitsVal(s, expStart, expEnd) ELSE 0
        exp == IF expSigned /\ s[fracEnd + 1] = "-" THEN 0 - expMag ELSE expMag
        digits == [j \in 1..(nInt + nFrac) |->
                      DigitVal(s[IF j <= nInt THEN start + j - 1 ELSE intEnd + j - nInt])]
    IN IF /\ start + 7 <= Len(s)
          /\ SubSeq(s, start, start + 7) = <<"I", "n", "f", "i", "n", "i", "t", "y">>
       THEN Infinity(neg)
       ELSE IF nInt = 0 /\ nFrac = 0 THEN NaN
       ELSE DoubleOf(neg, StripZeros(digits), exp - nFrac)

----------------------------------------------------------------------------
(* src/types.ts *)

\* enum PhotoStyle: the labels
PhotoStyle ==
    [REALISTIC |-> "Realistic Photo", STREET |-> "Street Photography",
     PORTRAIT |-> "Portrait", VINTAGE |-> "Vintage/Sepia",
     CINEMATIC |-> "Cinematic Shot", JOURNALISTIC |-> "Photojournalism",
     PAINTING |-> "Oil Painting"]

PhotoStyles == {PhotoStyle[k] : k \in DOMAIN PhotoStyle}

(* src/App.tsx: constants. *)

DEFAULT_COORDS == [lat |-> Dec(286562, 4), lng |-> Dec(772410, 4)]

RECOMMENDATIONS ==
    << [locationName |-> <<"Red Fort", ",", " Delhi">>,
        coords |-> [lat |-> Dec(286562, 4), lng |-> Dec(772410, 4)],
        date |-> "1947-08-15", time |-> "08:30", style |-> PhotoStyle.JOURNALISTIC],
       [locationName |-> <<"Tranquility Base", ",", " Moon">>,
        coords |-> [lat |-> Dec(6740, 4), lng |-> Dec(234720, 4)],
        date |-> "1969-07-20", time |-> "20:17", style |-> PhotoStyle.REALISTIC],
       [locationName |-> <<"Brandenburg Gate", ",", " Berlin">>,
        coords |-> [lat |-> Dec(525163, 4), lng |-> Dec(133777, 4)],
        date |-> "1989-11-09", time |-> "23:00", style |-> PhotoStyle.JOURNALISTIC],
       [locationName |-> <<"Isla Nublar (Costa Rica)">>,
        coords |-> [lat |-> Dec(97489, 4), lng |-> Dec(-837534, 4)],
        date |-> "-65000000-01-01", time |-> "12:00", style |-> PhotoStyle.CINEMATIC],
       [locationName |-> <<"Bethel", ",", " New York">>,
        coords |-> [lat |-> Dec(417010, 4), lng |-> Dec(-748800, 4)],
        date |-> "1969-08-15", time |-> "14:00", style |-> PhotoStyle.VINTAGE],
       [locationName |-> <<"Southampton Docks", ",", " UK">>,
        coords |-> [lat |-> Dec(508970, 4), lng |-> Dec(-14040, 4)],
        date |-> "1912-04-10", time |-> "12:00", style |-> PhotoStyle.VINTAGE] >>

(* The messages of the code. *)

KeyRequiredMsg == <<"API Key is required to use the Time Machine.">>
ReselectKeyMsg == <<"API Key validation failed. Please try selecting your key again.">>
GenericFailMsg == <<"Failed to generate time travel snapshot.">>
NoImageMsg == <<"No image data received from API.">>
EntityNotFound == <<"Requested entity", " was not found">>
LocationNotFoundMsg == <<"Location not found.">>
CouldNotFindMsg == <<"Could not find location.">>
LocatingStep == <<"Locating place...">>
ConsultingStep == <<"Consulting historical archives...">>
DevelopingStep == <<"Developing historical snapshot (Nano Banana 3)...">>
SelectedLocation == <<"Selected Location">>
DefaultScene == <<"A historical scene.">>
DefaultStory == <<"Welcome to the past!">>
ScrambledStory == <<"Time travel successful, but the flight log is scrambled.">>
DataUrlPrefix == <<"data:image/png;base64,">>

----------------------------------------------------------------------------
(* JSON.parse (part_000:55) on the texts of the scene-synthesis response.  *)
(* A text is a sequence of JSON tokens: "{", "}", ",", a member            *)
(* "key":"value", the literal null, a number, or a chunk that is no JSON.  *)

VpScene == "\"visualPrompt\":\"a crowd at the fort\""
VpEmpty == "\"visualPrompt\":\"\""
StTale == "\"story\":\"the flag goes up\""
StEmpty == "\"story\":\"\""
OtherMember == "\"note\":\"n\""

JsonMembers == {VpScene, VpEmpty, StTale, StEmpty, OtherMember}

MemberKey(tok) ==
    CASE tok \in {VpScene, VpEmpty} -> "visualPrompt"
      [] tok \in {StTale, StEmpty} -> "story"
      [] OTHER -> "note"

MemberVal(tok) ==
    CASE tok = VpScene -> <<"a crowd at the fort">>
      [] tok = StTale -> <<"the flag goes up">>
      [] tok = OtherMember -> <<"n">>
      [] OTHER -> <<>>

\* member (, member)*
IsMemberList(s) ==
    /\ Len(s) % 2 = 1
    /\ \A i \in 1..Len(s) :
          IF i % 2 = 1 THEN s[i] \in JsonMembers ELSE s[i] = ","

IsObjectText(s) ==
    /\ Len(s) >= 2
    /\ s[1] = "{"
    /\ s[Len(s)] = "}"
    /\ (Len(s) = 2 \/ IsMemberList(SubSeq(s, 2, Len(s) - 1)))

\* the value of property key of the object: the last member of that name
ObjectField(s, key) ==
    LET at == {i \in 2..(Len(s) - 1) : s[i] \in JsonMembers /\ MemberKey(s[i]) = key}
    IN IF at = {} THEN None
       ELSE Some(MemberVal(s[CHOOSE i \in at : \A j \in at : j <= i]))

JsonParse(s) ==
    IF IsObjectText(s)
    THEN [kind |-> "object", visualPrompt |-> ObjectField(s, "visualPrompt"),
          story |-> ObjectField(s, "story")]
    ELSE IF s = <<"null">> THEN [kind |-> "null", visualPrompt |-> None, story |-> None]
    ELSE IF s = <<"7">> THEN [kind |-> "number", visualPrompt |-> None, story |-> None]
    ELSE [kind |-> "SyntaxError", visualPrompt |-> None, story |-> None]

\* x || dflt, for a string property that may be absent
OrDefault(opt, dflt) == IF opt.some /\ opt.val # <<>> THEN opt.val ELSE dflt

(* generateVisualPrompt, from the response on: part_000:54-66.  text is    *)
(* response.text, the empty sequence when it is empty or undefined.        *)
(* Reading a property of null throws a TypeError inside the try block.     *)

ParseThrows(text) ==
    JsonParse(IF text = <<>> THEN <<"{", "}">> ELSE text).kind \in {"SyntaxError", "null"}

\* a variant that asks for both fields instead of defaulting each
VisualContextOfStrict(text) ==
    LET json == JsonParse(IF text = <<>> THEN <<"{", "}">> ELSE text)
    IN IF ParseThrows(text) \/ ~json.visualPrompt.some \/ ~json.story.some
       THEN [visualPrompt |-> text, story |-> ScrambledStory]
       ELSE [visualPrompt |-> json.visualPrompt.val, story |-> json.story.val]

\* the VisualContext returned for the response text
VisualContextOf(text) ==
    LET json == JsonParse(IF text = <<>> THEN <<"{", "}">> ELSE text)
    IN IF ParseThrows(text)
       THEN [visualPrompt |-> IF text # <<>> THEN text ELSE DefaultScene,
             story |-> ScrambledStory]
       ELSE [visualPrompt |-> OrDefault(json.visualPrompt, DefaultScene),
             story |-> OrDefault(json.story, DefaultStory)]

----------------------------------------------------------------------------
(* generateSnapshot: part_000:70-123 *)

\* a variant of finalPrompt without the style line
FinalPromptNoStyle(style_, context) ==
    <<"\n    ">> \o context.visualPrompt
        \o <<"\n    \n    Quality: High resolution, photorealistic, 8k, detailed textures.\n    Camera: Accurate to the era if vintage, or modern high-end capture if realistic.\n  ">>

\* finalPrompt, part_000:74-80
FinalPrompt(style_, context) ==
    <<"\n    ">> \o context.visualPrompt
        \o <<"\n    \n    Style: ", style_,
             ".\n    Quality: High resolution, photorealistic, 8k, detailed textures.\n    Camera: Accurate to the era if vintage, or modern high-end capture if realistic.\n  ">>

\* response.candidates?.[0]?.content?.parts, part_000:99
PartsOf(response) ==
    IF ~response.candidates.some THEN None
    ELSE IF Len(response.candidates.val) = 0 THEN None
    ELSE IF ~response.candidates.val[1].content.some THEN None
    ELSE response.candidates.val[1].content.val.parts

\* part.inlineData && part.inlineData.data, part_000:102
CarriesImage(part) == part.inlineData.some /\ part.inlineData.val.data # <<>>

\* a variant of the loop without its break: the last part that carries an image
LastImagePart(parts, i) ==
    LET at == {k \in i..Len(parts) : CarriesImage(parts[k])}
    IN IF at = {} THEN 0 ELSE CHOOSE k \in at : \A j \in at : j <= k

\* the loop of part_000:101-106 from index i on: the index of the part used, or 0
RECURSIVE FirstImagePart(_, _)
FirstImagePart(parts, i) ==
    IF i > Len(parts) THEN 0
    ELSE IF CarriesImage(parts[i]) THEN i
    ELSE FirstImagePart(parts, i + 1)

\* imageUrl after part_000:96-107
ImageUrlOf(response) ==
    LET parts == PartsOf(response)
        k == IF parts.some THEN FirstImagePart(parts.val, 1) ELSE 0
    IN IF k = 0 THEN <<>> ELSE DataUrlPrefix \o parts.val[k].inlineData.val.data

\* what generateSnapshot returns or throws for a response: part_000:109-118
SnapshotOutcome(style_, context, response) ==
    LET imageUrl == ImageUrlOf(response)
    IN IF imageUrl = <<>>
       THEN [threw |-> TRUE, message |-> NoImageMsg, image |-> None]
       ELSE [threw |-> FALSE, message |-> <<>>,
             image |-> Some([imageUrl |-> imageUrl,
                             description |-> context.visualPrompt,
                             story |-> context.story,
                             promptUsed |-> FinalPrompt(style_, context)])]

----------------------------------------------------------------------------
(* handleGenerate's catch block, App.tsx:162-168.  message is err.message, *)
(* the empty sequence when the error has none.                             *)

\* a variant that shows every message as it is
BannerOfVerbatim(message) == message

\* a variant without the || fallback of App.tsx:167
BannerOfNoFallback(message) ==
    IF message # <<>> /\ Includes(message, EntityNotFound) THEN ReselectKeyMsg
    ELSE message

\* the banner the catch block sets
BannerOf(message) ==
    IF message # <<>> /\ Includes(message, EntityNotFound) THEN ReselectKeyMsg
    ELSE IF message # <<>> THEN message
    ELSE GenericFailMsg

----------------------------------------------------------------------------
(* The inputs the environment is drawn from. *)

\* what the user types into the location box, App.tsx:231
TypedNames == {<<>>, <<" ">>, <<"Paris">>}

\* the preset the user selects: the option values of App.tsx:216
PresetInputs == {0}
AllPresetInputs == 0..(Len(RECOMMENDATIONS) - 1)

\* the style the user selects, App.tsx:291-296
StyleInputs == {PhotoStyle.PAINTING}

\* the date and time the user enters, App.tsx:266 and 277
DateInputs == {"0044-03-15"}
TimeInputs == {""}

\* where the user clicks on the map, MapPicker.tsx:24-26
RedFortClick == [lat |-> Dec(286570, 4), lng |-> Dec(772405, 4)]
LouvreClick == [lat |-> Dec(488606, 4), lng |-> Dec(23376, 4)]
BigBenClick == [lat |-> Dec(515007, 4), lng |-> Dec(-1246, 4)]

ClickInputs == {RedFortClick, LouvreClick, BigBenClick}

\* the display name the reverse-geocode service has for the coordinates
PlaceAt(c) ==
    CASE c = RedFortClick -> <<"Red Fort", ",", " Netaji Subhash Marg">>
      [] c = LouvreClick -> <<"Louvre", ",", " Paris">>
      [] OTHER -> <<"Big Ben", ",", " London">>

\* the parsed body of a successful reverse lookup of the coordinates
ReverseBodyAt(c) == Some([display_name |-> Some(PlaceAt(c))])

\* the parsed body of a forward-geocode response: null or an array of results
RedFortResult ==
    [lat |-> <<"2", "8", ".", "6", "5", "6", "2">>,
     lon |-> <<"7", "7", ".", "2", "4", "1", "0">>,
     display_name |-> Some(<<"Red Fort", ",", " Netaji Subhash Marg", ",", " Delhi">>)]

ParisResult ==
    [lat |-> <<"4", "8", ".", "8", "5", "6", "6">>,
     lon |-> <<"2", ".", "3", "5", "2", "2">>,
     display_name |-> Some(<<"Paris", ",", " Ile-de-France", ",", " France">>)]

SearchBodies == {None, Some(<<>>), Some(<<RedFortResult>>)}

AllSearchBodies ==
    SearchBodies \cup
    {Some(<<ParisResult, RedFortResult>>),
     Some(<<[ParisResult EXCEPT !.display_name = None]>>),
     Some(<<[ParisResult EXCEPT !.lat = <<>>]>>),
     Some(<<[ParisResult EXCEPT
                !.lat = <<" ", "4", ".", "8", "8", "5", "6", "6", "e", "1", "N">>]>>)}

\* the parsed body of a reverse-geocode response
ReverseBodies ==
    {None,
     Some([display_name |-> Some(<<"Louvre", ",", " Paris">>)]),
     Some([display_name |-> Some(<<"Red Fort", ",", " Netaji Subhash Marg">>)]),
     Some([display_name |-> Some(<<",", " Paris">>)]),
     Some([display_name |-> Some(<<>>)]),
     Some([display_name |-> None])}

\* err.message of what an external call throws; <<>> when the error has none
ThrownMessages ==
    {<<>>, <<"fetch failed">>, EntityNotFound,
     <<"[404] ">> \o EntityNotFound \o <<".">>,
     <<"Requested entity", " 7", " was not found">>}

\* response.text of the scene-synthesis response
SceneTexts == {<<"{", VpScene, ",", StTale, "}">>}

\* member (, member)* for a sequence of members
RECURSIVE Join(_)
Join(members) ==
    IF Len(members) = 0 THEN <<>>
    ELSE IF Len(members) = 1 THEN <<members[1]>>
    ELSE <<members[1], ",">> \o Join(Tail(members))

MemberSeqs == UNION {[1..n -> JsonMembers] : n \in 0..MaxMembers}

AllSceneTexts ==
    {<<>>, <<"null">>, <<"7">>, <<"Sorry">>, <<"Sorry", ",", " no JSON today">>}
    \cup {<<"{">> \o Join(ms) \o <<"}">> : ms \in MemberSeqs}
    \cup {<<"{">> \o Join(ms) : ms \in MemberSeqs}
    \cup {Join(ms) \o <<"}">> : ms \in MemberSeqs}
    \cup {<<"{">> \o Join(ms) \o <<",", "}">> : ms \in MemberSeqs}

\* the image-synthesis response
TextPart == [inlineData |-> None]
EmptyInlinePart == [inlineData |-> Some([data |-> <<>>])]
ImagePartA == [inlineData |-> Some([data |-> <<"iVBORw0A">>])]
ImagePartB == [inlineData |-> Some([data |-> <<"iVBORw0B">>])]

PartKinds == {TextPart, EmptyInlinePart, ImagePartA, ImagePartB}

Candidate(parts) == [content |-> Some([parts |-> parts])]

ResponseOf(parts) == [candidates |-> Some(<<Candidate(parts)>>)]

ImageResponses ==
    {ResponseOf(Some(<<>>)), ResponseOf(Some(<<TextPart, ImagePartA>>)),
     [candidates |-> None]}

PartSeqs == UNION {[1..n -> PartKinds] : n \in 0..MaxParts}

AllImageResponses ==
    {[candidates |-> None], [candidates |-> Some(<<>>)],
     [candidates |-> Some(<<[content |-> None]>>)], ResponseOf(None),
     [candidates |-> Some(<<Candidate(Some(<<TextPart>>)),
                            Candidate(Some(<<ImagePartA>>))>>)]}
    \cup {ResponseOf(Some(parts)) : parts \in PartSeqs}

----------------------------------------------------------------------------
(* An invocation of handleGenerate.  pc is the await it is suspended at:   *)
(*   "hasKey"    part_000:7   await window.aistudio.hasSelectedApiKey()    *)
(*   "picker"    part_000:9   await window.aistudio.openSelectKey()        *)
(*   "recheck"   part_000:10  await window.aistudio.hasSelectedApiKey()    *)
(*   "ensured"   App.tsx:136  await ensureApiKey(), which has returned:    *)
(*                            the rest of handleGenerate is queued         *)
(*   "analyzing" App.tsx:154  await generateVisualPrompt(request)          *)
(*   "rendering" App.tsx:158  await generateSnapshot(request, context)     *)
(* "start" before its first await, and "done" / "failed" once it has       *)
(* returned.  The other fields record what the invocation did: the calls   *)
(* it made, what they answered, what ensureApiKey returned (hasKey), the   *)
(* result that was current when it was invoked (prior), and for a failed   *)
(* one the pc it failed at and the message of the error it caught.         *)

RunOf(request, prior) ==
    [pc |-> "start", request |-> request, prior |-> prior,
     hasCalls |-> 0, pickerCalls |-> 0, sceneCalls |-> 0, imageCalls |-> 0,
     first |-> None, second |-> None, hasKey |-> None,
     sceneText |-> None, context |-> None, sent |-> None,
     response |-> None, image |-> None,
     thrown |-> None, failedIn |-> "none"]

\* The request of App.tsx:145-150, built from the state the handler closed
\* over when it was invoked.  Of the request the model holds the style,
\* which generateSnapshot reads (part_000:77); location, date and time go
\* only into the text of the scene prompt (part_000:26-35).
CurrentRequest == [style |-> style]

NoRun == [RunOf([style |-> PhotoStyle.JOURNALISTIC], None) EXCEPT !.pc = "none"]

Slots == 1..MaxRuns

\* what a step handled: op is "preset" (arg: the option index), "click"
\* (arg: the coordinates clicked), "search" or "reverse" (arg: whether the
\* lookup threw, the parsed body it answered with, and for a reverse lookup
\* the coordinates it was called with)
Event(op, arg) == [op |-> op, arg |-> arg]

NoEvent == Event("none", [index |-> 0])

InFlight == {i \in Slots : runs[i].pc # "none"}

\* No continuation is queued.  ensureApiKey is an async function, so the
\* await of App.tsx:136 always yields: when ensureApiKey returns, the rest of
\* handleGenerate is queued as a microtask, and it runs before the event
\* loop takes the next task.  Event handlers and the answers of external
\* calls are tasks, so none of them runs while a continuation is queued.
QueueEmpty == \A i \in Slots : runs[i].pc # "ensured"

Init ==
    /\ coords = DEFAULT_COORDS
    /\ locationName = <<"Red Fort", ",", " Delhi">>
    /\ date = "1947-08-15"
    /\ time = "10:00"
    /\ style = PhotoStyle.JOURNALISTIC
    /\ isLoading = FALSE
    /\ loadingStep = <<>>
    /\ result = None
    /\ error = None
    /\ aistudio \in BOOLEAN
    /\ runs = [i \in Slots |-> NoRun]
    /\ searches = 0
    /\ revs = <<>>
    /\ returned = NoRun
    /\ event = NoEvent

----------------------------------------------------------------------------
(* handleGenerate, App.tsx:130-173, with ensureApiKey, part_000:5-15.      *)
(* Each action runs one invocation from one await to the next.  Where a    *)
(* service function returns or throws after its own await                  *)
(* (generateVisualPrompt, generateSnapshot, a rejected credential call),   *)
(* its last part and the part of handleGenerate that follows run in the    *)
(* same drain of the microtask queue and the former sets no state, so the  *)
(* two are one action.                                                     *)

RemoveAt(seq, i) == SubSeq(seq, 1, i - 1) \o SubSeq(seq, i + 1, Len(seq))

\* the invocation of slot i is suspended again, as rec
Suspend(i, rec) ==
    /\ runs' = [runs EXCEPT ![i] = rec]
    /\ returned' = NoRun
    /\ event' = NoEvent

\* the invocation of slot i has returned, as rec
Return(i, rec) ==
    /\ runs' = [runs EXCEPT ![i] = NoRun]
    /\ returned' = rec
    /\ event' = NoEvent

\* a variant of NeedsPicker that never opens the picker
NeedsPickerNever(hasKey) == FALSE

\* if (!hasKey), part_000:8
NeedsPicker(hasKey) == ~hasKey

\* a variant of KeyCheckPasses without the test
KeyCheckSkipped(hasKey) == TRUE

\* the invocation goes on: the negation of if (!hasKey), App.tsx:137
KeyCheckPasses(hasKey) == hasKey

\* a variant of Catch that puts back the result of before the invocation
CatchRestoresPrior(i, rec, message) ==
    /\ error' = Some(BannerOf(message))
    /\ isLoading' = FALSE
    /\ loadingStep' = <<>>
    /\ result' = rec.prior
    /\ Return(i, [rec EXCEPT !.pc = "failed", !.thrown = Some(message),
                             !.failedIn = rec.pc])

\* a variant of Catch that awaits the failed call again
CatchAwaitsAgain(i, rec, message) ==
    /\ UNCHANGED <<error, isLoading, loadingStep, result>>
    /\ Suspend(i, [rec EXCEPT !.thrown = Some(message)])

\* a variant of Catch without the finally block
CatchKeepsLoading(i, rec, message) ==
    /\ error' = Some(BannerOf(message))
    /\ UNCHANGED <<isLoading, loadingStep, result>>
    /\ Return(i, [rec EXCEPT !.pc = "failed", !.thrown = Some(message),
                             !.failedIn = rec.pc])

\* the catch block and finally, App.tsx:162-172
Catch(i, rec, message) ==
    /\ error' = Some(BannerOf(message))
    /\ isLoading' = FALSE
    /\ loadingStep' = <<>>
    /\ result' = result
    /\ Return(i, [rec EXCEPT !.pc = "failed", !.thrown = Some(message),
                             !.failedIn = rec.pc])

\* ensureApiKey returns hasKey to the invocation rec of slot i, part_000:10,
\* 12 and 14: handleGenerate stays suspended at App.tsx:136 with the rest of
\* it queued
EnsureApiKeyGives(i, rec, hasKey) ==
    Suspend(i, [rec EXCEPT !.pc = "ensured", !.hasKey = Some(hasKey)])

\* the click on the generate button, App.tsx:310-312 and 130-136, up to the
\* first await: that of part_000:7, or without window.aistudio, where
\* ensureApiKey returns false without awaiting (part_000:14), that of
\* App.tsx:136
HandleGenerate ==
    /\ QueueEmpty
    /\ ~isLoading
    /\ Slots \ InFlight # {}
    /\ LET i == CHOOSE k \in Slots \ InFlight : \A j \in Slots \ InFlight : k <= j
           rec == RunOf(CurrentRequest, result)
       IN IF aistudio
          THEN Suspend(i, [rec EXCEPT !.pc = "hasKey", !.hasCalls = 1])
          ELSE EnsureApiKeyGives(i, rec, FALSE)
    /\ error' = None
    /\ result' = None
    /\ UNCHANGED <<formVars, isLoading, loadingStep, aistudio, searches, revs>>

\* hasSelectedApiKey answers the first check, part_000:7-12
HasKeyReturns(i, hasKey) ==
    /\ QueueEmpty
    /\ runs[i].pc = "hasKey"
    /\ LET rec == [runs[i] EXCEPT !.first = Some(hasKey)]
       IN IF NeedsPicker(hasKey)
          THEN Suspend(i, [rec EXCEPT !.pc = "picker", !.pickerCalls = @ + 1])
          ELSE EnsureApiKeyGives(i, rec, TRUE)
    /\ UNCHANGED <<formVars, isLoading, loadingStep, result, error, aistudio,
                   searches, revs>>

\* openSelectKey returns, part_000:9-10
PickerReturns(i) ==
    /\ QueueEmpty
    /\ runs[i].pc = "picker"
    /\ Suspend(i, [runs[i] EXCEPT !.pc = "recheck", !.hasCalls = @ + 1])
    /\ UNCHANGED <<formVars, isLoading, loadingStep, result, error, aistudio,
                   searches, revs>>

\* hasSelectedApiKey answers the second check, part_000:10
RecheckReturns(i, hasKey) ==
    /\ QueueEmpty
    /\ runs[i].pc = "recheck"
    /\ EnsureApiKeyGives(i, [runs[i] EXCEPT !.second = Some(hasKey)], hasKey)
    /\ UNCHANGED <<formVars, isLoading, loadingStep, result, error, aistudio,
                   searches, revs>>

\* the rest of handleGenerate after await ensureApiKey(), App.tsx:136-154,
\* and for the early return the finally block, App.tsx:169-172
EnsureApiKeyReturns(i) ==
    /\ runs[i].pc = "ensured"
    /\ IF KeyCheckPasses(runs[i].hasKey.val)
       THEN /\ isLoading' = TRUE
            /\ loadingStep' = ConsultingStep
            /\ Suspend(i, [runs[i] EXCEPT !.pc = "analyzing", !.sceneCalls = @ + 1])
            /\ UNCHANGED error
       ELSE /\ error' = Some(KeyRequiredMsg)
            /\ isLoading' = FALSE
            /\ loadingStep' = <<>>
            /\ Return(i, [runs[i] EXCEPT !.pc = "failed", !.failedIn = runs[i].pc])
    /\ UNCHANGED <<formVars, result, aistudio, searches, revs>>

\* a variant of ContextPassed that passes a fixed context
ContextPassedStale(visualContext) ==
    [visualPrompt |-> DefaultScene, story |-> DefaultStory]

\* the argument handleGenerate passes to generateSnapshot, App.tsx:154-158
ContextPassed(visualContext) == visualContext

\* a variant of SceneReturns that publishes the context as a result
SceneReturnsPublishes(i, text) ==
    /\ QueueEmpty
    /\ runs[i].pc = "analyzing"
    /\ LET visualContext == VisualContextOf(text)
           passed == ContextPassed(visualContext)
       IN /\ Suspend(i, [runs[i] EXCEPT
               !.pc = "rendering", !.sceneText = Some(text),
               !.context = Some(visualContext),
               !.sent = Some([context |-> passed,
                              prompt |-> FinalPrompt(runs[i].request.style, passed)]),
               !.imageCalls = @ + 1])
          /\ result' = Some([imageUrl |-> <<>>,
                             description |-> visualContext.visualPrompt,
                             story |-> visualContext.story,
                             promptUsed |-> <<>>])
    /\ loadingStep' = DevelopingStep
    /\ UNCHANGED <<formVars, isLoading, error, aistudio, searches, revs>>

\* generateVisualPrompt returns, App.tsx:154-158, and generateSnapshot runs
\* up to its await, part_000:70-94
SceneReturns(i, text) ==
    /\ QueueEmpty
    /\ runs[i].pc = "analyzing"
    /\ LET visualContext == VisualContextOf(text)
           passed == ContextPassed(visualContext)
       IN Suspend(i, [runs[i] EXCEPT
               !.pc = "rendering", !.sceneText = Some(text),
               !.context = Some(visualContext),
               !.sent = Some([context |-> passed,
                              prompt |-> FinalPrompt(runs[i].request.style, passed)]),
               !.imageCalls = @ + 1])
    /\ loadingStep' = DevelopingStep
    /\ UNCHANGED <<formVars, isLoading, result, error, aistudio, searches, revs>>

\* the image model answers, part_000:96-122 and App.tsx:160-172
ImageReturns(i, response) ==
    /\ QueueEmpty
    /\ runs[i].pc = "rendering"
    /\ LET rec == [runs[i] EXCEPT !.response = Some(response)]
           out == SnapshotOutcome(rec.request.style, rec.sent.val.context, response)
       IN IF out.threw
          THEN Catch(i, rec, out.message)
          ELSE /\ result' = out.image
               /\ isLoading' = FALSE
               /\ loadingStep' = <<>>
               /\ error' = error
               /\ Return(i, [rec EXCEPT !.pc = "done", !.image = out.image])
    /\ UNCHANGED <<formVars, aistudio, searches, revs>>

\* the call the invocation of slot i awaits rejects with an error whose
\* message is message: App.tsx:162-172 (generateSnapshot rethrows,
\* part_000:119-122)
CallThrows(i, message) ==
    /\ QueueEmpty
    /\ runs[i].pc \in {"hasKey", "picker", "recheck", "analyzing", "rendering"}
    /\ Catch(i, runs[i], message)
    /\ UNCHANGED <<formVars, aistudio, searches, revs>>

----------------------------------------------------------------------------
(* The form and the location handlers of App.tsx. *)

\* onChange of the location box, App.tsx:231
SetLocationName(value) ==
    /\ QueueEmpty
    /\ locationName' = value
    /\ UNCHANGED <<coords, date, time, style, isLoading, loadingStep, result,
                   error, aistudio, runs, searches, revs>>
    /\ returned' = NoRun
    /\ event' = NoEvent

\* onChange of the date input, App.tsx:266
SetDate(value) ==
    /\ QueueEmpty
    /\ date' = value
    /\ UNCHANGED <<coords, locationName, time, style, isLoading, loadingStep,
                   result, error, aistudio, runs, searches, revs>>
    /\ returned' = NoRun
    /\ event' = NoEvent

\* onChange of the time input, App.tsx:277
SetTime(value) ==
    /\ QueueEmpty
    /\ time' = value
    /\ UNCHANGED <<coords, locationName, date, style, isLoading, loadingStep,
                   result, error, aistudio, runs, searches, revs>>
    /\ returned' = NoRun
    /\ event' = NoEvent

\* onChange of the style select, App.tsx:291
SetStyle(value) ==
    /\ QueueEmpty
    /\ style' = value
    /\ UNCHANGED <<coords, locationName, date, time, isLoading, loadingStep,
                   result, error, aistudio, runs, searches, revs>>
    /\ returned' = NoRun
    /\ event' = NoEvent

\* a variant of HandleRecommendationChange without setResult(null)
HandleRecommendationChangeKeepsResult(index) ==
    /\ QueueEmpty
    /\ LET rec == RECOMMENDATIONS[index + 1]
       IN /\ locationName' = rec.locationName
          /\ coords' = rec.coords
          /\ date' = rec.date
          /\ time' = rec.time
          /\ style' = rec.style
    /\ error' = None
    /\ UNCHANGED <<isLoading, loadingStep, result, aistudio, runs, searches, revs>>
    /\ returned' = NoRun
    /\ event' = Event("preset", [index |-> index])

\* handleRecommendationChange, App.tsx:114-128; index is parseInt of the
\* option value (no option but the disabled placeholder gives NaN)
HandleRecommendationChange(index) ==
    /\ QueueEmpty
    /\ LET rec == RECOMMENDATIONS[index + 1]
       IN /\ locationName' = rec.locationName
          /\ coords' = rec.coords
          /\ date' = rec.date
          /\ time' = rec.time
          /\ style' = rec.style
    /\ result' = None
    /\ error' = None
    /\ UNCHANGED <<isLoading, loadingStep, aistudio, runs, searches, revs>>
    /\ returned' = NoRun
    /\ event' = Event("preset", [index |-> index])

\* handleSearch up to its await, App.tsx:73-78; with a blank name it returns
\* at once and changes nothing
HandleSearch ==
    /\ QueueEmpty
    /\ ~TrimIsEmpty(locationName)
    /\ searches < MaxSearches
    /\ isLoading' = TRUE
    /\ loadingStep' = LocatingStep
    /\ searches' = searches + 1
    /\ UNCHANGED <<formVars, result, error, aistudio, runs, revs>>
    /\ returned' = NoRun
    /\ event' = NoEvent

\* a variant of SearchReturns that falls back to the default coordinates
\* when nothing is found
SearchReturnsResets(data) ==
    /\ QueueEmpty
    /\ searches > 0
    /\ searches' = searches - 1
    /\ IF data.some /\ Len(data.val) > 0
       THEN /\ coords' = [lat |-> ParseFloat(data.val[1].lat),
                          lng |-> ParseFloat(data.val[1].lon)]
            /\ IF data.val[1].display_name.some
               THEN /\ locationName' = SplitCommaFirst(data.val[1].display_name.val)
                    /\ error' = error
               ELSE /\ locationName' = locationName
                    /\ error' = Some(CouldNotFindMsg)
       ELSE /\ error' = Some(LocationNotFoundMsg)
            /\ coords' = DEFAULT_COORDS
            /\ locationName' = locationName
    /\ isLoading' = FALSE
    /\ loadingStep' = <<>>
    /\ UNCHANGED <<date, time, style, result, aistudio, runs, revs>>
    /\ returned' = NoRun
    /\ event' = Event("search", [threw |-> FALSE, data |-> data])

\* the lookup answers with the parsed body data, App.tsx:79-93
SearchReturns(data) ==
    /\ QueueEmpty
    /\ searches > 0
    /\ searches' = searches - 1
    /\ IF data.some /\ Len(data.val) > 0
       THEN /\ coords' = [lat |-> ParseFloat(data.val[1].lat),
                          lng |-> ParseFloat(data.val[1].lon)]
            /\ IF data.val[1].display_name.some
               THEN /\ locationName' = SplitCommaFirst(data.val[1].display_name.val)
                    /\ error' = error
               ELSE /\ locationName' = locationName
                    /\ error' = Some(CouldNotFindMsg)
       ELSE /\ error' = Some(LocationNotFoundMsg)
            /\ UNCHANGED <<coords, locationName>>
    /\ isLoading' = FALSE
    /\ loadingStep' = <<>>
    /\ UNCHANGED <<date, time, style, result, aistudio, runs, revs>>
    /\ returned' = NoRun
    /\ event' = Event("search", [threw |-> FALSE, data |-> data])

\* a variant of SearchThrows that sends the request again
SearchThrowsRetries ==
    /\ QueueEmpty
    /\ searches > 0
    /\ searches' = searches
    /\ isLoading' = TRUE
    /\ loadingStep' = LocatingStep
    /\ UNCHANGED <<formVars, result, error, aistudio, runs, revs>>
    /\ returned' = NoRun
    /\ event' = Event("search", [threw |-> TRUE, data |-> None])

\* fetch or response.json() rejects, App.tsx:88-93
SearchThrows ==
    /\ QueueEmpty
    /\ searches > 0
    /\ searches' = searches - 1
    /\ error' = Some(CouldNotFindMsg)
    /\ isLoading' = FALSE
    /\ loadingStep' = <<>>
    /\ UNCHANGED <<formVars, result, aistudio, runs, revs>>
    /\ returned' = NoRun
    /\ event' = Event("search", [threw |-> TRUE, data |-> None])

\* handleMapClick, App.tsx:109-112, and handleReverseGeocode up to its
\* await, App.tsx:96-99
HandleMapClick(newCoords) ==
    /\ QueueEmpty
    /\ Len(revs) < MaxRevs
    /\ coords' = newCoords
    /\ revs' = Append(revs, newCoords)
    /\ UNCHANGED <<locationName, date, time, style, isLoading, loadingStep,
                   result, error, aistudio, runs, searches>>
    /\ returned' = NoRun
    /\ event' = Event("click", [at |-> newCoords])

\* the reverse lookup k answers with the parsed body data, App.tsx:100-103;
\* a body without display_name throws a TypeError, which is ignored
ReverseReturns(k, data) ==
    /\ QueueEmpty
    /\ k \in 1..Len(revs)
    /\ revs' = RemoveAt(revs, k)
    /\ IF data.some /\ data.val.display_name.some
       THEN locationName' =
               (LET head == SplitCommaFirst(data.val.display_name.val)
                IN IF head # <<>> THEN head ELSE SelectedLocation)
       ELSE locationName' = locationName
    /\ UNCHANGED <<coords, date, time, style, isLoading, loadingStep, result,
                   error, aistudio, runs, searches>>
    /\ returned' = NoRun
    /\ event' = Event("reverse", [threw |-> FALSE, data |-> data, at |-> revs[k]])

\* a variant of ReverseThrows that reports the failure
ReverseThrowsSetsError(k) ==
    /\ QueueEmpty
    /\ k \in 1..Len(revs)
    /\ revs' = RemoveAt(revs, k)
    /\ error' = Some(CouldNotFindMsg)
    /\ UNCHANGED <<formVars, isLoading, loadingStep, result, aistudio,
                   runs, searches>>
    /\ returned' = NoRun
    /\ event' = Event("reverse", [threw |-> TRUE, data |-> None, at |-> revs[k]])

\* fetch or response.json() of the reverse lookup k rejects, App.tsx:104-106
ReverseThrows(k) ==
    /\ QueueEmpty
    /\ k \in 1..Len(revs)
    /\ revs' = RemoveAt(revs, k)
    /\ UNCHANGED <<formVars, isLoading, loadingStep, result, error, aistudio,
                   runs, searches>>
    /\ returned' = NoRun
    /\ event' = Event("reverse", [threw |-> TRUE, data |-> None, at |-> revs[k]])

----------------------------------------------------------------------------
(* Spec: the generate runs, with the handlers that share isLoading,        *)
(* loadingStep, result and error with them (the preset selection and the   *)
(* search).  The other form inputs are part of SpecLocation.               *)

Next ==
    \/ HandleGenerate
    \/ \E i \in Slots, hasKey \in BOOLEAN : HasKeyReturns(i, hasKey)
    \/ \E i \in Slots : PickerReturns(i)
    \/ \E i \in Slots, hasKey \in BOOLEAN : RecheckReturns(i, hasKey)
    \/ \E i \in Slots : EnsureApiKeyReturns(i)
    \/ \E i \in Slots, text \in SceneTexts : SceneReturns(i, text)
    \/ \E i \in Slots, response \in ImageResponses : ImageReturns(i, response)
    \/ \E i \in Slots, message \in ThrownMessages : CallThrows(i, message)
    \/ \E index \in PresetInputs : HandleRecommendationChange(index)
    \/ HandleSearch
    \/ \E data \in SearchBodies : SearchReturns(data)
    \/ SearchThrows

Spec == Init /\ [][Next]_vars

(* SpecFair: the generate runs, where the external call an invocation      *)
(* awaits (the credential check, the picker, the scene synthesis, the      *)
(* image synthesis) eventually returns or throws, and a queued             *)
(* continuation eventually runs.  An answer that is due cannot be taken    *)
(* while the continuation of another invocation is queued, and it can be   *)
(* taken again once that continuation has run: the fairness is strong, an  *)
(* answer that is possible again and again is eventually taken.            *)

Answers(i) ==
    \/ \E hasKey \in BOOLEAN : HasKeyReturns(i, hasKey)
    \/ PickerReturns(i)
    \/ \E hasKey \in BOOLEAN : RecheckReturns(i, hasKey)
    \/ EnsureApiKeyReturns(i)
    \/ \E text \in SceneTexts : SceneReturns(i, text)
    \/ \E response \in ImageResponses : ImageReturns(i, response)
    \/ \E message \in ThrownMessages : CallThrows(i, message)

NextFair ==
    \/ HandleGenerate
    \/ \E i \in Slots : Answers(i)
    \/ \E index \in PresetInputs : HandleRecommendationChange(index)

SpecFair == Init /\ [][NextFair]_vars /\ \A i \in Slots : SF_vars(Answers(i))

(* SpecScene: generateVisualPrompt on every response text of AllSceneTexts, *)
(* from the states in which an invocation awaits the scene synthesis.      *)

AwaitingScene(style_) ==
    [RunOf([style |-> style_], None) EXCEPT
        !.pc = "analyzing", !.hasCalls = 1, !.first = Some(TRUE),
        !.hasKey = Some(TRUE), !.sceneCalls = 1]

InitScene ==
    /\ coords = DEFAULT_COORDS
    /\ locationName = <<"Red Fort", ",", " Delhi">>
    /\ date = "1947-08-15"
    /\ time = "10:00"
    /\ style \in {PhotoStyle.JOURNALISTIC, PhotoStyle.PAINTING}
    /\ isLoading = TRUE
    /\ loadingStep = ConsultingStep
    /\ result = None
    /\ error = None
    /\ aistudio = TRUE
    /\ runs = [i \in Slots |-> IF i = 1 THEN AwaitingScene(style) ELSE NoRun]
    /\ searches = 0
    /\ revs = <<>>
    /\ returned = NoRun
    /\ event = NoEvent

NextScene == \E text \in AllSceneTexts : SceneReturns(1, text)

SpecScene == InitScene /\ [][NextScene]_vars

(* SpecSnapshot: generateSnapshot on every response of AllImageResponses,  *)
(* from the states in which an invocation awaits the image synthesis.      *)

AwaitingImage(style_, text) ==
    [AwaitingScene(style_) EXCEPT
        !.pc = "rendering", !.sceneText = Some(text),
        !.context = Some(VisualContextOf(text)),
        !.sent = Some([context |-> VisualContextOf(text),
                       prompt |-> FinalPrompt(style_, VisualContextOf(text))]),
        !.imageCalls = 1]

InitSnapshot ==
    /\ coords = DEFAULT_COORDS
    /\ locationName = <<"Red Fort", ",", " Delhi">>
    /\ date = "1947-08-15"
    /\ time = "10:00"
    /\ style \in PhotoStyles
    /\ isLoading = TRUE
    /\ loadingStep = DevelopingStep
    /\ result = None
    /\ error = None
    /\ aistudio = TRUE
    /\ \E text \in SceneTexts :
          runs = [i \in Slots |-> IF i = 1 THEN AwaitingImage(style, text) ELSE NoRun]
    /\ searches = 0
    /\ revs = <<>>
    /\ returned = NoRun
    /\ event = NoEvent

NextSnapshot == \E response \in AllImageResponses : ImageReturns(1, response)

SpecSnapshot == InitSnapshot /\ [][NextSnapshot]_vars

(* SpecLocation: the form and the location handlers, on their own.         *)

NextLocation ==
    \/ \E value \in TypedNames : SetLocationName(value)
    \/ \E value \in DateInputs : SetDate(value)
    \/ \E value \in TimeInputs : SetTime(value)
    \/ \E value \in StyleInputs : SetStyle(value)
    \/ \E index \in AllPresetInputs : HandleRecommendationChange(index)
    \/ HandleSearch
    \/ \E data \in AllSearchBodies : SearchReturns(data)
    \/ SearchThrows
    \/ \E newCoords \in ClickInputs : HandleMapClick(newCoords)
    \/ \E k \in 1..Len(revs), data \in ReverseBodies : ReverseReturns(k, data)
    \/ \E k \in 1..Len(revs) : ReverseThrows(k)

SpecLocation == Init /\ [][NextLocation]_vars

(* SpecSearch: the location box and handleSearch, on every body of         *)
(* AllSearchBodies.                                                        *)

NextSearch ==
    \/ \E value \in TypedNames : SetLocationName(value)
    \/ HandleSearch
    \/ \E data \in AllSearchBodies : SearchReturns(data)
    \/ SearchThrows

SpecSearch == Init /\ [][NextSearch]_vars

(* SpecPreset: the preset selection and the form inputs, from the states   *)
(* in which no handler is in flight: with or without a published result    *)
(* (the one a run from the initial form publishes), with or without an     *)
(* error banner (the one a search without results leaves).                 *)

PublishedImage ==
    SnapshotOutcome(PhotoStyle.JOURNALISTIC,
                    VisualContextOf(<<"{", VpScene, ",", StTale, "}">>),
                    ResponseOf(Some(<<TextPart, ImagePartA>>))).image

InitPreset ==
    /\ coords = DEFAULT_COORDS
    /\ locationName = <<"Red Fort", ",", " Delhi">>
    /\ date = "1947-08-15"
    /\ time = "10:00"
    /\ style = PhotoStyle.JOURNALISTIC
    /\ isLoading = FALSE
    /\ loadingStep = <<>>
    /\ result \in {None, PublishedImage}
    /\ error \in {None, Some(LocationNotFoundMsg)}
    /\ aistudio \in BOOLEAN
    /\ result.some => aistudio
    /\ runs = [i \in Slots |-> NoRun]
    /\ searches = 0
    /\ revs = <<>>
    /\ returned = NoRun
    /\ event = NoEvent

NextPreset ==
    \/ \E index \in AllPresetInputs : HandleRecommendationChange(index)
    \/ \E value \in TypedNames : SetLocationName(value)
    \/ \E value \in TimeInputs : SetTime(value)
    \/ \E value \in StyleInputs : SetStyle(value)

SpecPreset == InitPreset /\ [][NextPreset]_vars

(* SpecRun: the generate runs while the user changes the style.            *)

NextRun ==
    \/ HandleGenerate
    \/ \E i \in Slots, hasKey \in BOOLEAN : HasKeyReturns(i, hasKey)
    \/ \E i \in Slots : PickerReturns(i)
    \/ \E i \in Slots, hasKey \in BOOLEAN : RecheckReturns(i, hasKey)
    \/ \E i \in Slots : EnsureApiKeyReturns(i)
    \/ \E i \in Slots, text \in SceneTexts : SceneReturns(i, text)
    \/ \E i \in Slots, response \in ImageResponses : ImageReturns(i, response)
    \/ \E value \in StyleInputs : SetStyle(value)
    \/ \E index \in PresetInputs : HandleRecommendationChange(index)

SpecRun == Init /\ [][NextRun]_vars

(* SpecClicks: the map clicks and their reverse lookups, on every body of  *)
(* ReverseBodies, with the search, which shares the location name, the     *)
(* coordinates, the error and the loading flag with them.                  *)

NextClicks ==
    \/ \E newCoords \in ClickInputs : HandleMapClick(newCoords)
    \/ \E k \in 1..Len(revs), data \in ReverseBodies : ReverseReturns(k, data)
    \/ \E k \in 1..Len(revs) : ReverseThrows(k)
    \/ HandleSearch
    \/ \E data \in SearchBodies : SearchReturns(data)
    \/ SearchThrows

SpecClicks == Init /\ [][NextClicks]_vars

(* SpecLag: map clicks whose reverse lookups all succeed, each with the    *)
(* display name of the coordinates it was called with, in any order.       *)

NextLag ==
    \/ \E newCoords \in ClickInputs : HandleMapClick(newCoords)
    \/ \E k \in 1..Len(revs) : ReverseReturns(k, ReverseBodyAt(revs[k]))

SpecLag == Init /\ [][NextLag]_vars

----------------------------------------------------------------------------
(* The claims.  An invocation is looked at while it is in flight (runs[i])  *)
(* and in the state it returned into (returned).                           *)

Records == {runs[i] : i \in InFlight} \cup (IF returned.pc = "none" THEN {} ELSE {returned})

\* C1: an invocation for which ensureApiKey returned false goes no further:
\* while it is in flight it only waits for the rest of handleGenerate to
\* run, and that returns it as failed with the key-required message as the
\* banner; it has called neither generateVisualPrompt nor generateSnapshot.
C1_NoKeyNoCalls ==
    /\ \A i \in InFlight :
          runs[i].hasKey = Some(FALSE) =>
             /\ runs[i].pc = "ensured"
             /\ runs[i].sceneCalls = 0
             /\ runs[i].imageCalls = 0
    /\ returned.hasKey = Some(FALSE) =>
          /\ returned.pc = "failed"
          /\ returned.failedIn = "ensured"
          /\ error = Some(KeyRequiredMsg)
          /\ returned.sceneCalls = 0
          /\ returned.imageCalls = 0

C1_Witness ==
    /\ returned.hasKey = Some(FALSE)
    /\ returned.pc = "failed"
    /\ error = Some(KeyRequiredMsg)

\* C2, as claimed: when an invocation has failed, the current result is the
\* result that was current when it was invoked.
C2_Original == returned.pc = "failed" => result = returned.prior

\* C2, amended: the step that invokes handleGenerate sets the result to
\* null, and the step in which an invocation fails later leaves the result
\* as that step found it.
C2_ClearedThenKept ==
    [][/\ (\E i \in Slots : runs[i].pc = "none" /\ runs'[i].pc # "none") =>
             result' = None
       /\ returned'.pc = "failed" => result' = result
      ]_vars

C2_Witness ==
    /\ returned.pc = "failed"
    /\ returned.failedIn = "rendering"
    /\ returned.prior.some
    /\ result = None

\* C3: the result becomes a non-null value only in the step in which an
\* invocation returns as done, and then it is the image that invocation
\* got from generateSnapshot after both of its calls returned; that step
\* sets the result whatever it was before.
C3_PublishedOnlyByDone ==
    [][/\ result'.some => \/ result' = result
                          \/ returned'.pc = "done" /\ returned'.image = result'
       /\ returned'.pc = "done" =>
             /\ result' = returned'.image
             /\ result'.some
             /\ returned'.context.some
             /\ returned'.response.some
             /\ returned'.thrown = None
             /\ returned'.sceneCalls = 1
             /\ returned'.imageCalls = 1
      ]_vars

C3_Witness ==
    /\ returned.pc = "done"
    /\ result.some
    /\ result = returned.image

\* C4, as claimed: while an invocation of handleGenerate is in flight the
\* generate button is disabled, that is, isLoading is true.
C4_DisabledWhileRunning == \A i \in InFlight : isLoading

\* C5: an invocation moves through its awaits in the order credential
\* check, scene synthesis, image synthesis; it returns as done only from
\* the image synthesis and as failed only from an await it was suspended
\* at; while it awaits the scene synthesis it has not called the image
\* synthesis, and the image synthesis is called once the scene synthesis
\* has returned, with the context it returned.
C5_PhaseOrder ==
    [][/\ \A i \in Slots :
            /\ runs[i].pc # runs'[i].pc =>
                  \/ runs[i].pc = "none" /\ runs'[i].pc \in {"hasKey", "ensured"}
                  \/ runs[i].pc = "hasKey" /\ runs'[i].pc \in {"picker", "ensured", "none"}
                  \/ runs[i].pc = "picker" /\ runs'[i].pc \in {"recheck", "none"}
                  \/ runs[i].pc = "recheck" /\ runs'[i].pc \in {"ensured", "none"}
                  \/ runs[i].pc = "ensured" /\ runs'[i].pc \in {"analyzing", "none"}
                  \/ runs[i].pc = "analyzing" /\ runs'[i].pc \in {"rendering", "none"}
                  \/ runs[i].pc = "rendering" /\ runs'[i].pc = "none"
            /\ (runs[i].pc # "none" /\ runs'[i].pc = "none") =>
                  /\ returned'.pc \in {"done", "failed"}
                  /\ returned'.pc = "done" => runs[i].pc = "rendering"
                  /\ returned'.pc = "failed" => returned'.failedIn = runs[i].pc
            /\ runs'[i].pc = "analyzing" =>
                  /\ runs'[i].sceneCalls = 1
                  /\ runs'[i].imageCalls = 0
                  /\ runs'[i].context = None
            /\ runs'[i].pc = "rendering" =>
                  /\ runs'[i].sceneCalls = 1
                  /\ runs'[i].imageCalls = 1
                  /\ runs'[i].context.some
                  /\ runs'[i].sent.some
                  /\ runs'[i].sent.val.context = runs'[i].context.val
       /\ returned'.pc = "failed" =>
             returned'.failedIn \in {"hasKey", "picker", "recheck", "ensured",
                                     "analyzing", "rendering"}
      ]_vars

C5_Witness ==
    \E i \in InFlight :
        /\ runs[i].pc = "rendering"
        /\ runs[i].imageCalls = 1
        /\ runs[i].sent.val.context = runs[i].context.val

\* C6: the picker is opened at most once, and only after a first check
\* that answered false; a first check that answered false opens it; the
\* second check is made only after the picker; ensureApiKey returns true
\* exactly when the first check or the check after the picker answered
\* true; and the invocation goes on to the scene synthesis only then.
C6_CredentialCheck ==
    \A r \in Records :
        /\ r.pickerCalls <= 1
        /\ r.hasCalls <= 2
        /\ r.pickerCalls = 1 <=> r.first = Some(FALSE)
        /\ r.hasCalls = 2 => r.pickerCalls = 1
        /\ r.second.some => r.hasCalls = 2
        /\ r.first = Some(TRUE) => r.hasCalls = 1
        /\ r.hasKey.some =>
              (r.hasKey.val <=> (r.first = Some(TRUE) \/ r.second = Some(TRUE)))
        /\ (r.hasKey.some /\ aistudio) => r.first.some
        /\ r.sceneCalls > 0 => r.hasKey = Some(TRUE)

C6_Witness ==
    /\ returned.pc = "failed"
    /\ returned.first = Some(FALSE)
    /\ returned.second = Some(FALSE)
    /\ returned.pickerCalls = 1
    /\ returned.hasCalls = 2
    /\ returned.hasKey = Some(FALSE)

\* the text is a JSON object that carries both visualPrompt and story
TwoField(text) ==
    /\ IsObjectText(text)
    /\ ObjectField(text, "visualPrompt").some
    /\ ObjectField(text, "story").some

\* C7, as claimed: for a response text that is not an object with both
\* fields, the context is the raw text with the placeholder narrative.
C7_Original ==
    \A i \in InFlight :
        (runs[i].sceneText.some /\ ~TwoField(runs[i].sceneText.val)) =>
            runs[i].context =
                Some([visualPrompt |-> runs[i].sceneText.val, story |-> ScrambledStory])

\* the field of a text that JSON.parse accepts, or dflt when the text is no
\* object, the field is absent or it is the empty string
FieldOr(text, key, dflt) ==
    IF IsObjectText(text) THEN OrDefault(ObjectField(text, key), dflt) ELSE dflt

\* C7, amended: generateVisualPrompt never raises; for a non-empty text
\* that is not JSON, or is the JSON null, the context is the raw text with
\* the placeholder narrative; for an empty text and for JSON that lacks a
\* field (or has it empty) each such field gets its own default.
C7_DegradesByCase ==
    /\ returned.pc # "failed"
    /\ \A i \in InFlight :
          runs[i].sceneText.some =>
             /\ runs[i].pc = "rendering"
             /\ LET text == runs[i].sceneText.val
                IN IF text # <<>> /\ ~IsObjectText(text) /\ text # <<"7">>
                   THEN runs[i].context =
                           Some([visualPrompt |-> text, story |-> ScrambledStory])
                   ELSE runs[i].context =
                           Some([visualPrompt |-> FieldOr(text, "visualPrompt", DefaultScene),
                                 story |-> FieldOr(text, "story", DefaultStory)])

C7_Witness ==
    \E i \in InFlight :
        /\ runs[i].sceneText = Some(<<"{", StTale, "}">>)
        /\ runs[i].context.val.visualPrompt = DefaultScene
        /\ runs[i].context.val.story = <<"the flag goes up">>

\* the indexes of the parts of the response that carry inline image data
Carriers(response) ==
    IF PartsOf(response).some
    THEN {k \in 1..Len(PartsOf(response).val) : CarriesImage(PartsOf(response).val[k])}
    ELSE {}

\* C8: when no part of the response carries inline image data the
\* invocation fails with the no-image error and no result is published;
\* otherwise the image is the first such part's data behind the data prefix.
C8_NoImageOrFirstPart ==
    returned.response.some =>
        IF Carriers(returned.response.val) = {}
        THEN /\ returned.pc = "failed"
             /\ returned.thrown = Some(NoImageMsg)
             /\ error = Some(NoImageMsg)
             /\ result = None
        ELSE LET k == CHOOSE k \in Carriers(returned.response.val) :
                         \A j \in Carriers(returned.response.val) : k <= j
             IN /\ returned.pc = "done"
                /\ result.some
                /\ result.val.imageUrl =
                      DataUrlPrefix \o PartsOf(returned.response.val).val[k].inlineData.val.data

C8_Witness ==
    /\ returned.response = Some(ResponseOf(Some(<<TextPart, EmptyInlinePart>>)))
    /\ returned.pc = "failed"
    /\ error = Some(NoImageMsg)
    /\ result = None

\* C9, as claimed: the banner after a scene-synthesis error is that
\* error's own message.
C9_Original == returned.failedIn = "analyzing" => error = returned.thrown

\* C9, amended: a scene-synthesis error fails the invocation without a
\* second scene call and without an image call, and the banner is the
\* error's message, except that a message that contains the
\* entity-not-found text gives the reselect message and a missing message
\* the generic one.
C9_SceneErrorBanner ==
    returned.failedIn = "analyzing" =>
        /\ returned.pc = "failed"
        /\ returned.sceneCalls = 1
        /\ returned.imageCalls = 0
        /\ error = Some(IF Includes(returned.thrown.val, EntityNotFound) THEN ReselectKeyMsg
                        ELSE IF returned.thrown.val = <<>> THEN GenericFailMsg
                        ELSE returned.thrown.val)

C9_Witness ==
    /\ returned.failedIn = "analyzing"
    /\ Includes(returned.thrown.val, EntityNotFound)
    /\ error = Some(ReselectKeyMsg)

\* C10: after an image-synthesis error the invocation has failed and the
\* banner is the reselect message when the error's message contains the
\* entity-not-found text, else the message itself when there is one, else
\* the generic message; it is never empty.
C10_ImageErrorBanner ==
    returned.failedIn = "rendering" =>
        /\ returned.pc = "failed"
        /\ error.some
        /\ error.val # <<>>
        /\ Includes(returned.thrown.val, EntityNotFound) => error = Some(ReselectKeyMsg)
        /\ (~Includes(returned.thrown.val, EntityNotFound) /\ returned.thrown.val # <<>>) =>
              error = returned.thrown
        /\ returned.thrown.val = <<>> => error = Some(GenericFailMsg)

C10_Witness ==
    /\ returned.failedIn = "rendering"
    /\ returned.thrown = Some(<<>>)
    /\ error = Some(GenericFailMsg)

\* the lookup answered without a result: null or an empty array
ZeroResults(data) == ~data.some \/ Len(data.val) = 0

\* C11: the step in which a search is answered with zero results sets the
\* error to the location-not-found message and leaves the coordinates and
\* the location name as they were.
C11_ZeroResultsFrame ==
    [][(event'.op = "search" /\ ~event'.arg.threw /\ ZeroResults(event'.arg.data)) =>
          /\ error' = Some(LocationNotFoundMsg)
          /\ coords' = coords
          /\ locationName' = locationName
      ]_vars

C11_Witness ==
    /\ event.op = "search"
    /\ ~event.arg.threw
    /\ event.arg.data = Some(<<>>)
    /\ error = Some(LocationNotFoundMsg)
    /\ locationName = <<"Paris">>
    /\ coords # DEFAULT_COORDS

\* C12: the step that handles a preset selection sets the location name,
\* the coordinates, the date, the time and the style to the preset's
\* values, all in that one step, and leaves no result and no error,
\* whatever they were before.
C12_PresetSetsAll ==
    [][event'.op = "preset" =>
          LET rec == RECOMMENDATIONS[event'.arg.index + 1]
          IN /\ locationName' = rec.locationName
             /\ coords' = rec.coords
             /\ date' = rec.date
             /\ time' = rec.time
             /\ style' = rec.style
             /\ result' = None
             /\ error' = None
      ]_vars

C12_Witness ==
    /\ event.op = "preset"
    /\ event.arg.index = 3
    /\ locationName = <<"Isla Nublar (Costa Rica)">>
    /\ style = PhotoStyle.CINEMATIC
    /\ result = None
    /\ error = None

\* C13: when an invocation returns as done, the result is made of the
\* image prefix followed by the data of the first image part of the
\* response, the visualPrompt and the story that generateVisualPrompt
\* returned, and the prompt that was sent to the image model; that prompt
\* contains the visualPrompt and the style label of the request, which is
\* the style selected when the invocation started.
C13_PublishedFields ==
    returned.pc = "done" =>
        LET context == returned.context.val
            parts == PartsOf(returned.response.val).val
            res == result.val
        IN /\ result.some
           /\ res.imageUrl # <<>>
           /\ SubSeq(res.imageUrl, 1, Len(DataUrlPrefix)) = DataUrlPrefix
           /\ \E k \in 1..Len(parts) :
                 /\ CarriesImage(parts[k])
                 /\ \A j \in 1..(k - 1) : ~CarriesImage(parts[j])
                 /\ res.imageUrl = DataUrlPrefix \o parts[k].inlineData.val.data
           /\ res.description = context.visualPrompt
           /\ res.story = context.story
           /\ res.promptUsed = returned.sent.val.prompt
           /\ Includes(res.promptUsed, context.visualPrompt)
           /\ Includes(res.promptUsed, <<returned.request.style>>)

C13_Witness ==
    /\ returned.pc = "done"
    /\ returned.request.style = PhotoStyle.JOURNALISTIC
    /\ style = PhotoStyle.PAINTING
    /\ result.val.description = <<"a crowd at the fort">>
    /\ result.val.story = <<"the flag goes up">>
    /\ Includes(result.val.promptUsed, <<"Photojournalism">>)

\* a reverse lookup that threw, or answered null or without display_name
ReverseFailed(e) ==
    /\ e.op = "reverse"
    /\ \/ e.arg.threw
       \/ ~e.arg.data.some
       \/ ~e.arg.data.val.display_name.some

\* a reverse lookup that answered with a display name whose text before the
\* first comma is empty
ReverseNameless(e) ==
    /\ e.op = "reverse"
    /\ ~e.arg.threw
    /\ e.arg.data.some
    /\ e.arg.data.val.display_name.some
    /\ SplitCommaFirst(e.arg.data.val.display_name.val) = <<>>

\* C14, as claimed: the step that handles a reverse lookup that failed or
\* answered without a usable display name changes none of the error, the
\* location name, the loading flag, the result and the coordinates.
C14_Original ==
    [][(ReverseFailed(event') \/ ReverseNameless(event')) =>
          UNCHANGED <<error, locationName, isLoading, loadingStep, result, coords>>
      ]_vars

\* C14, amended: a reverse lookup that threw, or answered null or without
\* a display_name, changes none of them; one that answered with a display
\* name that is empty before its first comma sets the location name to
\* "Selected Location" and changes none of the others.
C14_FailureIsSilent ==
    [][/\ ReverseFailed(event') =>
             UNCHANGED <<error, locationName, isLoading, loadingStep, result, coords>>
       /\ ReverseNameless(event') =>
             /\ locationName' = SelectedLocation
             /\ UNCHANGED <<error, isLoading, loadingStep, result, coords>>
      ]_vars

C14_Witness ==
    /\ ReverseFailed(event)
    /\ ~event.arg.threw
    /\ event.arg.data = Some([display_name |-> None])
    /\ coords = event.arg.at
    /\ isLoading
    /\ error.some

\* C15: an invocation of handleGenerate calls the scene synthesis at most
\* once and the image synthesis at most once, also when the call failed;
\* a step starts at most one forward lookup, and the step that handles a
\* lookup's answer or failure ends that lookup without starting another.
C15_NoRetries ==
    [][/\ \A i \in Slots : runs'[i].sceneCalls <= 1 /\ runs'[i].imageCalls <= 1
       /\ returned'.sceneCalls <= 1
       /\ returned'.imageCalls <= 1
       /\ returned'.failedIn = "analyzing" =>
             returned'.sceneCalls = 1 /\ returned'.imageCalls = 0
       /\ returned'.failedIn = "rendering" =>
             returned'.sceneCalls = 1 /\ returned'.imageCalls = 1
       /\ searches' > searches => searches' = searches + 1
       /\ event'.op = "search" => searches' = searches - 1
      ]_vars

C15_Witness ==
    /\ returned.pc = "failed"
    /\ returned.failedIn = "rendering"
    /\ returned.thrown = Some(<<"fetch failed">>)
    /\ returned.sceneCalls = 1
    /\ returned.imageCalls = 1

\* C16, as claimed: after map clicks, when no reverse lookup is
\* outstanding (each has answered with the display name of its
\* coordinates), the location name is the one derived from the current
\* coordinates.
C16_NameFollowsLastClick ==
    (revs = <<>> /\ coords \in ClickInputs) =>
        locationName = SplitCommaFirst(PlaceAt(coords))

\* C17: whenever no handleSearch and no handleGenerate is in flight,
\* isLoading is false and loadingStep is empty.
C17_IdleNotLoading ==
    (InFlight = {} /\ searches = 0) => (~isLoading /\ loadingStep = <<>>)

C17_Witness ==
    /\ InFlight = {}
    /\ searches = 0
    /\ returned.pc = "failed"
    /\ returned.failedIn = "rendering"
    /\ ~isLoading
    /\ loadingStep = <<>>

\* C18, as claimed: the step in which a search finishes either takes both
\* the coordinates and the name from the first result and sets no error,
\* or sets one of the two search errors and leaves both the coordinates
\* and the name as they were.
C18_SearchAllOrNothing ==
    [][event'.op = "search" =>
          \/ /\ ~event'.arg.threw
             /\ ~ZeroResults(event'.arg.data)
             /\ coords' = [lat |-> ParseFloat(event'.arg.data.val[1].lat),
                           lng |-> ParseFloat(event'.arg.data.val[1].lon)]
             /\ event'.arg.data.val[1].display_name.some
             /\ locationName' = SplitCommaFirst(event'.arg.data.val[1].display_name.val)
             /\ error' = error
          \/ /\ error' \in {Some(LocationNotFoundMsg), Some(CouldNotFindMsg)}
             /\ coords' = coords
             /\ locationName' = locationName
      ]_vars

\* C19: when every call that is awaited eventually returns or throws,
\* every invocation of handleGenerate eventually returns; it returns either
\* as done, having published its image and set no error in that step, or
\* as failed, having set a non-empty error and left the result alone; and
\* the step in which it returns clears isLoading and loadingStep.
C19_Terminates ==
    /\ \A i \in Slots : (runs[i].pc # "none") ~> (runs[i].pc = "none")
    /\ [][returned'.pc # "none" =>
             /\ returned'.pc \in {"done", "failed"}
             /\ returned'.pc = "done" =>
                   /\ result'.some
                   /\ result' = returned'.image
                   /\ error' = error
             /\ returned'.pc = "failed" =>
                   /\ error'.some
                   /\ error'.val # <<>>
                   /\ result' = result
             /\ ~isLoading'
             /\ loadingStep' = <<>>
        ]_vars

C19_Witness ==
    /\ returned.pc = "done"
    /\ returned.first = Some(FALSE)
    /\ returned.second = Some(TRUE)
    /\ result.some
    /\ error = None
    /\ ~isLoading
    /\ loadingStep = <<>>

====
